---- MODULE Spec2Model ----
(***************************************************************************)
(* The IPFS upload relay (POST /upload, forwarding to the pinning          *)
(* provider), the interactive uploader loop, and the process wiring of     *)
(* main.go.                                                                *)
(*                                                                         *)
(* Text is a sequence of atoms.  An atom is one character, or a run of     *)
(* characters none of which is special to JSON (no quote, backslash,       *)
(* brace, colon, comma, '<', control character).  All texts that come from *)
(* outside (provider bodies, content identifiers, stdin lines) are         *)
(* sequences of one-character atoms.                                       *)
(***************************************************************************)
EXTENDS Naturals, Sequences, FiniteSets

\* Longest raw text (provider body, content identifier) the environment sends.
MaxBodyLen == 2

Quote == "\""
Backslash == "\\"

\* Characters of externally supplied texts: a plain letter, a character JSON
\* must escape, and a character Go's encoder escapes for HTML safety.
BodyChars == {"b", Quote, "<"}

RECURSIVE TextsUpTo(_)
TextsUpTo(n) ==
    IF n = 0 THEN {<<>>}
    ELSE LET shorter == TextsUpTo(n - 1)
         IN  shorter \cup {Append(t, c) : t \in shorter, c \in BodyChars}

Texts == TextsUpTo(MaxBodyLen)

\* strings.Contains(s, sub)
Contains(s, sub) ==
    \E i \in 0..(Len(s) - Len(sub)) : SubSeq(s, i + 1, i + Len(sub)) = sub

\* An optional value: <<>> is none (Go's nil error), <<x>> is x.
None == <<>>
Some(x) == <<x>>

(***************************************************************************)
(* encoding/json, writing: Marshal of a map of strings, which is what       *)
(* fiber's c.JSON calls.  Go escapes quote and backslash, and '<' as        *)
(* backslash-u003c (HTML escaping is on in Marshal).                        *)
(***************************************************************************)
EscapeAtom(a) ==
    IF a = Quote THEN <<Backslash, Quote>>
    ELSE IF a = Backslash THEN <<Backslash, Backslash>>
    ELSE IF a = "<" THEN <<Backslash, "u003c">>
    ELSE <<a>>

RECURSIVE EscapeText(_)
EscapeText(t) ==
    IF t = <<>> THEN <<>> ELSE EscapeAtom(Head(t)) \o EscapeText(Tail(t))

MarshalString(t) == <<Quote>> \o EscapeText(t) \o <<Quote>>

RECURSIVE MarshalMembers(_, _)
MarshalMembers(m, keys) ==
    IF keys = {} THEN <<>>
    ELSE LET k == CHOOSE x \in keys : TRUE
             rest == keys \ {k}
         IN  MarshalString(<<k>>) \o <<":">> \o MarshalString(m[k])
               \o (IF rest = {} THEN <<>> ELSE <<",">> \o MarshalMembers(m, rest))

MarshalMap(m) == <<"{">> \o MarshalMembers(m, DOMAIN m) \o <<"}">>

(***************************************************************************)
(* encoding/json, reading.  The grammar covered: objects, strings with the  *)
(* escapes of quote, backslash and u003c, one-digit numbers, null, the      *)
(* empty array; no white space.                                             *)
(* A value is [t |-> "str", s |-> text], [t |-> "num"],                     *)
(* [t |-> "null"], [t |-> "arr"] or [t |-> "obj", m |-> members], members   *)
(* a sequence of <<key text, value>>.                                       *)
(***************************************************************************)
Digits == {"0", "1"}

ParseFail == [ok |-> FALSE, next |-> 0]

\* The string whose opening quote is before position i.
RECURSIVE ParseString(_, _, _)
ParseString(b, i, acc) ==
    IF i > Len(b) THEN ParseFail
    ELSE IF b[i] = Quote THEN [ok |-> TRUE, v |-> [t |-> "str", s |-> acc], next |-> i + 1]
    ELSE IF b[i] = Backslash
         THEN IF i + 1 > Len(b) THEN ParseFail
              ELSE IF b[i + 1] \in {Quote, Backslash}
                   THEN ParseString(b, i + 2, Append(acc, b[i + 1]))
              ELSE IF b[i + 1] = "u003c"
                   THEN ParseString(b, i + 2, Append(acc, "<"))
              ELSE ParseFail
    ELSE ParseString(b, i + 1, Append(acc, b[i]))

RECURSIVE ParseValue(_, _)
RECURSIVE ParseMembers(_, _, _)
ParseValue(b, i) ==
    IF i > Len(b) THEN ParseFail
    ELSE IF b[i] = Quote THEN ParseString(b, i + 1, <<>>)
    ELSE IF b[i] = "null" THEN [ok |-> TRUE, v |-> [t |-> "null"], next |-> i + 1]
    ELSE IF b[i] \in Digits THEN [ok |-> TRUE, v |-> [t |-> "num"], next |-> i + 1]
    ELSE IF b[i] = "["
         THEN IF i + 1 <= Len(b) /\ b[i + 1] = "]"
              THEN [ok |-> TRUE, v |-> [t |-> "arr"], next |-> i + 2]
              ELSE ParseFail
    ELSE IF b[i] = "{"
         THEN IF i + 1 <= Len(b) /\ b[i + 1] = "}"
              THEN [ok |-> TRUE, v |-> [t |-> "obj", m |-> <<>>], next |-> i + 2]
              ELSE ParseMembers(b, i + 1, <<>>)
    ELSE ParseFail

\* The members of an object from position i, the key of the next member.
ParseMembers(b, i, acc) ==
    IF i > Len(b) \/ b[i] # Quote THEN ParseFail
    ELSE LET k == ParseString(b, i + 1, <<>>)
         IN  IF ~k.ok \/ k.next > Len(b) \/ b[k.next] # ":" THEN ParseFail
             ELSE LET e == ParseValue(b, k.next + 1)
                  IN  IF ~e.ok \/ e.next > Len(b) THEN ParseFail
                      ELSE LET all == Append(acc, <<k.v.s, e.v>>)
                           IN  IF b[e.next] = "}"
                               THEN [ok |-> TRUE, v |-> [t |-> "obj", m |-> all],
                                     next |-> e.next + 1]
                               ELSE IF b[e.next] = ","
                               THEN ParseMembers(b, e.next + 1, all)
                               ELSE ParseFail

\* A whole document: one value and nothing after it.
ParseDocument(b) ==
    LET r == ParseValue(b, 1)
    IN  IF r.ok /\ r.next = Len(b) + 1 THEN r ELSE ParseFail

(***************************************************************************)
(* json.Unmarshal(body, &pinataRes): the struct has the one field IpfsHash. *)
(* Go matches the key exactly or under case folding; a string sets the      *)
(* field, null leaves it, another type is an UnmarshalTypeError (decoding   *)
(* goes on, the first error is returned); a later duplicate key overrides.  *)
(***************************************************************************)
IpfsHashKeys == {<<"IpfsHash">>, <<"ipfshash">>}

SyntaxErrorText == <<"invalid character looking for beginning of value">>
TypeErrorText == <<"json: cannot unmarshal value into Go struct field PinataResponse.IpfsHash of type string">>

RECURSIVE DecodeFields(_, _)
DecodeFields(members, acc) ==
    IF members = <<>> THEN acc
    ELSE LET k == Head(members)[1]
             v == Head(members)[2]
             next == IF k \notin IpfsHashKeys \/ v.t = "null" THEN acc
                     ELSE IF v.t = "str" THEN [acc EXCEPT !.IpfsHash = v.s]
                     ELSE IF acc.err = None THEN [acc EXCEPT !.err = Some(TypeErrorText)]
                     ELSE acc
         IN  DecodeFields(Tail(members), next)

Unmarshal(body) ==
    LET d == ParseDocument(body)
        zero == [err |-> None, IpfsHash |-> <<>>]
    IN  IF ~d.ok THEN [zero EXCEPT !.err = Some(SyntaxErrorText)]
        ELSE IF d.v.t = "null" THEN zero
        ELSE IF d.v.t = "obj" THEN DecodeFields(d.v.m, zero)
        ELSE [zero EXCEPT !.err = Some(TypeErrorText)]

(***************************************************************************)
(* The pinning provider, an external collaborator: what it may answer.      *)
(* A reply is [status, body, ipfsHash]; ipfsHash is not sent, it records    *)
(* what the provider put in the document: Some(h) when the body is a JSON   *)
(* object whose IpfsHash member is the string h, None otherwise.            *)
(***************************************************************************)
RECURSIVE ProviderEscape(_)
ProviderEscape(t) ==
    IF t = <<>> THEN <<>>
    ELSE (IF Head(t) \in {Quote, Backslash} THEN <<Backslash, Head(t)>> ELSE <<Head(t)>>)
           \o ProviderEscape(Tail(t))

PinDocument(hash) ==
    <<"{", Quote, "IpfsHash", Quote, ":", Quote>> \o ProviderEscape(hash)
      \o <<Quote, ",", Quote, "PinSize", Quote, ":", "1", "}">>

OtherDocuments ==
    { <<"{", "}">>,
      <<"null">>,
      <<"[", "]">>,
      <<"{", Quote, "IpfsHash", Quote, ":", "1", "}">>,
      <<"{", Quote, "IpfsHash", Quote, ":", "null", "}">>,
      <<"{", Quote, "ipfshash", Quote, ":", Quote, "b", Quote, "}">>,
      <<"{", Quote, "IpfsHash", Quote, ":", Quote, "b", Quote, "}", "b">> }

ProviderBodies ==
    {[body |-> t, ipfsHash |-> None] : t \in Texts \cup OtherDocuments}
      \cup {[body |-> PinDocument(t), ipfsHash |-> Some(t)] : t \in Texts}

ProviderStatuses == {200, 201, 500}

ProviderReplies ==
    {[status |-> s, body |-> b.body, ipfsHash |-> b.ipfsHash] :
        s \in ProviderStatuses, b \in ProviderBodies}

(***************************************************************************)
(* uploadToIPFS, from the provider's reply on (lines 66-80), and the        *)
(* handler's two ways of answering.                                         *)
(***************************************************************************)
\* A slip: the status is reported, the provider's body is dropped.
PinataError_StatusOnly(body) == <<"pinata error: status not 200">>

\* fmt.Errorf("pinata error: %s", string(body)).Error()
PinataError(body) == <<"pinata error: ">> \o body

\* A slip: the provider's own gateway in place of the public one.
IpfsURL_WrongGateway(hash) == <<"https://gateway.pinata.cloud/ipfs/">> \o hash

\* fmt.Sprintf("https://ipfs.io/ipfs/%s", pinataRes.IpfsHash)
IpfsURL(hash) == <<"https://ipfs.io/ipfs/">> \o hash

\* What uploadToIPFS returns for a reply: [url, err].
UploadResult(reply) ==
    IF reply.status # 200
    THEN [url |-> <<>>, err |-> Some(PinataError(reply.body))]
    ELSE LET res == Unmarshal(reply.body)
         IN  IF res.err # None THEN [url |-> <<>>, err |-> res.err]
             ELSE [url |-> IpfsURL(res.IpfsHash), err |-> None]

\* c.Status(status).JSON(fields): the status, the map, and the bytes written.
JSONResponse(status, fields) ==
    [status |-> status, fields |-> fields, body |-> MarshalMap(fields)]

\* A slip: c.JSON without c.Status, so the error goes out with status 200.
ErrorResponse_DefaultStatus(status, text) == JSONResponse(200, [k \in {"error"} |-> text])

\* c.Status(fiber.StatusXxx).JSON(fiber.Map{"error": text})
ErrorResponse(status, text) == JSONResponse(status, [k \in {"error"} |-> text])

\* c.JSON(fiber.Map{"ipfs_url": ipfsURL}): the status stays fiber's default, 200.
SuccessResponse(url) == JSONResponse(200, [k \in {"ipfs_url"} |-> url])

\* The handler's lines 99-106.
UploadResponse(result) ==
    IF result.err # None THEN ErrorResponse(500, result.err[1])
    ELSE SuccessResponse(result.url)

\* Errors of uploadToIPFS before the provider is called (lines 41-55).
BuildErrors == {"CreateFormFile", "Copy", "NewRequest"}
BuildErrorText(e) == <<"multipart: ", e, " failed">>

\* The *url.Error of client.Do (line 62): Go quotes the URL in its text.
TransportErrorText ==
    <<"Post ", Quote, "https://api.pinata.cloud/pinning/pinFileToIPFS", Quote,
      ": dial tcp: connection refused">>

(***************************************************************************)
(* State.                                                                   *)
(***************************************************************************)
VARIABLES
    mode,      \* os.Args[1]: "server", "cli", "unknown", or "combined" (no argument)
    proc,      \* the process: "running", "fatal" (log.Fatal's os.Exit), "returned"
    mainPc,    \* where main is
    wg,        \* the sync.WaitGroup's counter
    relayPc,   \* the goroutine of startFiberApp: "none", "spawned", "listening", "returned"
    h,         \* per client, the handler invocation serving its request
    cliPc,     \* where cliUpload is
    cliInput,  \* input, after TrimSpace
    cliOpen,   \* files the uploader holds open
    cliOut,    \* the uploader's last line on stdout
    stdinBuf,  \* bytes bufio.Reader has read but not returned
    eof        \* stdin is at its end

vars == <<mode, proc, mainPc, wg, relayPc, h, cliPc, cliInput, cliOpen, cliOut, stdinBuf, eof>>

Modes == {"server", "cli", "combined", "unknown"}

\* The uploader and one outside HTTP client: two requests can be in flight at once.
Clients == {"cli", "ext"}

\* What a request carries: a `file` field, no such field, or a body that is
\* not a readable multipart form.
Requests == {"file", "absent", "malformed"}

\* A handler invocation before a request has arrived: the closure's locals.
IdleCtx ==
    [pc |-> "idle", req |-> "none", fileOpen |-> 0, calls |-> 0,
     reply |-> None, resp |-> None]

NoOutput == [kind |-> "none", text |-> <<>>]

Init ==
    /\ mode \in Modes
    /\ proc = "running"
    /\ mainPc = "loadEnv"
    /\ wg = 0
    /\ relayPc = "none"
    /\ h = [c \in Clients |-> IdleCtx]
    /\ cliPc = "off"
    /\ cliInput = <<>>
    /\ cliOpen = 0
    /\ cliOut = NoOutput
    /\ stdinBuf = <<>>
    /\ eof = FALSE

cliVars == <<cliPc, cliInput, cliOpen, cliOut, stdinBuf, eof>>

(***************************************************************************)
(* main and the relay goroutine.                                            *)
(***************************************************************************)
\* log.Fatal: os.Exit(1); deferred calls do not run, every goroutine stops.
LogFatal ==
    /\ proc' = "fatal"
    /\ UNCHANGED <<mode, mainPc, wg, relayPc, h, cliVars>>

\* main returns: the process ends.
MainReturns ==
    /\ mainPc' = "returned"
    /\ proc' = "returned"

LoadEnv ==
    /\ proc = "running"
    /\ mainPc = "loadEnv"
    /\ \/ /\ mainPc' = "args"
          /\ UNCHANGED <<mode, proc, wg, relayPc, h, cliVars>>
       \/ LogFatal

\* main's lines 177-200, to its first blocking call.
MainDispatch ==
    /\ proc = "running"
    /\ mainPc = "args"
    /\ \/ /\ mode = "server"
          /\ wg' = wg + 1
          /\ relayPc' = "spawned"
          /\ mainPc' = "wait"
          /\ UNCHANGED <<proc, cliPc, cliOut>>
       \/ /\ mode = "cli"
          /\ mainPc' = "cli"
          /\ cliPc' = "prompt"
          /\ UNCHANGED <<proc, wg, relayPc, cliOut>>
       \/ /\ mode = "unknown"
          /\ cliOut' = [kind |-> "usage", text |-> <<>>]
          /\ MainReturns
          /\ UNCHANGED <<wg, relayPc, cliPc>>
       \/ /\ mode = "combined"
          /\ wg' = wg + 1
          /\ relayPc' = "spawned"
          /\ mainPc' = "sleep"
          /\ UNCHANGED <<proc, cliPc, cliOut>>
    /\ UNCHANGED <<mode, h, cliInput, cliOpen, stdinBuf, eof>>

\* time.Sleep(1 * time.Second) returns and cliUpload starts.  The Go runtime
\* promises no progress of another goroutine within any span of time.
MainSleep ==
    /\ proc = "running"
    /\ mainPc = "sleep"
    /\ mainPc' = "cli"
    /\ cliPc' = "prompt"
    /\ UNCHANGED <<mode, proc, wg, relayPc, h, cliInput, cliOpen, cliOut, stdinBuf, eof>>

\* cliUpload has returned: line 187 then 191, or line 202 then 204.
MainAfterCli ==
    /\ proc = "running"
    /\ mainPc = "cli"
    /\ cliPc = "exited"
    /\ IF mode = "cli"
       THEN MainReturns /\ UNCHANGED wg
       ELSE mainPc' = "wait" /\ UNCHANGED <<proc, wg>>
    /\ UNCHANGED <<mode, relayPc, h, cliVars>>

\* wg.Wait(): main is parked; it goes on when it finds the counter at zero.
MainWait ==
    /\ proc = "running"
    /\ mainPc = "wait"
    /\ IF wg = 0
       THEN MainReturns
       ELSE UNCHANGED <<mainPc, proc>>
    /\ UNCHANGED <<mode, wg, relayPc, h, cliVars>>

\* startFiberApp to app.Listen(":3000"): the listener is bound, or Listen
\* returns the error and log.Fatal ends the process.
RelayListen ==
    /\ proc = "running"
    /\ relayPc = "spawned"
    /\ \/ /\ relayPc' = "listening"
          /\ UNCHANGED <<mode, proc, mainPc, wg, h, cliVars>>
       \/ LogFatal

\* A slip: the error of app.Listen is logged without log.Fatal, so
\* startFiberApp returns and its deferred wg.Done() runs.
ListenReturns_Returns ==
    /\ proc = "running"
    /\ relayPc = "listening"
    /\ relayPc' = "returned"
    /\ wg' = wg - 1
    /\ UNCHANGED <<mode, proc, mainPc, h, cliVars>>

\* app.Listen returns while serving (the accept loop failed): log.Fatal.
ListenReturns ==
    /\ proc = "running"
    /\ relayPc = "listening"
    /\ LogFatal

(***************************************************************************)
(* The handler of POST /upload (lines 87-107), one invocation per request.  *)
(* It is cut where the outcome is the environment's: the form, the open,    *)
(* the multipart copy, the provider.                                        *)
(***************************************************************************)
relayFrame == <<mode, proc, mainPc, wg, relayPc, cliVars>>

\* The handler returns resp; `deferred` says whether defer file.Close() was
\* reached, in which case the handle is closed on the way out.
HandlerReturn(ctx, resp, deferred) ==
    [ctx EXCEPT !.pc = "answered",
                !.resp = Some(resp),
                !.fileOpen = IF deferred THEN @ - 1 ELSE @]

\* A request of an outside client is accepted by the listener.
ExtRequest ==
    /\ proc = "running"
    /\ relayPc = "listening"
    /\ h["ext"].pc = "idle"
    /\ \E req \in Requests :
          h' = [h EXCEPT !["ext"] = [IdleCtx EXCEPT !.pc = "recv", !.req = req]]
    /\ UNCHANGED relayFrame

\* A slip: the error of c.FormFile is not looked at.
HandleFormFile_Unchecked(c) ==
    /\ proc = "running"
    /\ h[c].pc = "recv"
    /\ h' = [h EXCEPT ![c] = [h[c] EXCEPT !.pc = "header"]]
    /\ UNCHANGED relayFrame

\* c.FormFile("file"), lines 88-91.
HandleFormFile(c) ==
    /\ proc = "running"
    /\ h[c].pc = "recv"
    /\ h' = [h EXCEPT ![c] =
               IF h[c].req # "file"
               THEN HandlerReturn(h[c], ErrorResponse(400, <<"File missing">>), FALSE)
               ELSE [h[c] EXCEPT !.pc = "header"]]
    /\ UNCHANGED relayFrame

\* fileHeader.Open(), lines 93-97.
HandleOpen(c) ==
    /\ proc = "running"
    /\ h[c].pc = "header"
    /\ \E ok \in BOOLEAN :
          h' = [h EXCEPT ![c] =
                  IF ok
                  THEN [h[c] EXCEPT !.pc = "opened", !.fileOpen = @ + 1]
                  ELSE HandlerReturn(h[c], ErrorResponse(500, <<"File open failed">>), FALSE)]
    /\ UNCHANGED relayFrame

\* uploadToIPFS up to the request being ready, lines 35-59.
HandleBuild(c) ==
    /\ proc = "running"
    /\ h[c].pc = "opened"
    /\ \/ h' = [h EXCEPT ![c] = [h[c] EXCEPT !.pc = "built"]]
       \/ \E e \in BuildErrors :
             h' = [h EXCEPT ![c] =
                     HandlerReturn(h[c],
                                   UploadResponse([url |-> <<>>, err |-> Some(BuildErrorText(e))]),
                                   TRUE)]
    /\ UNCHANGED relayFrame

\* A slip: a second attempt after the first.
HandleDo_Twice(c) ==
    /\ proc = "running"
    /\ h[c].pc = "built"
    /\ h' = [h EXCEPT ![c] = [h[c] EXCEPT !.pc = "awaiting", !.calls = @ + 2]]
    /\ UNCHANGED relayFrame

\* client.Do(req), line 62: the one outbound call.
HandleDo(c) ==
    /\ proc = "running"
    /\ h[c].pc = "built"
    /\ h' = [h EXCEPT ![c] = [h[c] EXCEPT !.pc = "awaiting", !.calls = @ + 1]]
    /\ UNCHANGED relayFrame

\* client.Do returns an error, lines 63-65, then the handler's lines 100-102.
ProviderUnreachable(c) ==
    /\ proc = "running"
    /\ h[c].pc = "awaiting"
    /\ h' = [h EXCEPT ![c] =
               HandlerReturn(h[c],
                             UploadResponse([url |-> <<>>, err |-> Some(TransportErrorText)]),
                             TRUE)]
    /\ UNCHANGED relayFrame

\* client.Do returns the provider's reply, lines 66-80, then lines 100-106.
ProviderAnswers(c) ==
    /\ proc = "running"
    /\ h[c].pc = "awaiting"
    /\ \E reply \in ProviderReplies :
          h' = [h EXCEPT ![c] =
                  HandlerReturn([h[c] EXCEPT !.reply = Some(reply)],
                                UploadResponse(UploadResult(reply)),
                                TRUE)]
    /\ UNCHANGED relayFrame

\* The outside client has its response; nothing of the request is kept.
ExtReceive ==
    /\ proc = "running"
    /\ h["ext"].pc = "answered"
    /\ h' = [h EXCEPT !["ext"] = IdleCtx]
    /\ UNCHANGED relayFrame

(***************************************************************************)
(* cliUpload, lines 113-172.                                                *)
(***************************************************************************)
WhiteSpace == {" ", "\t", "\r", "\n"}

RECURSIVE TrimLeft(_)
TrimLeft(t) ==
    IF t # <<>> /\ Head(t) \in WhiteSpace THEN TrimLeft(Tail(t)) ELSE t

RECURSIVE TrimRight(_)
TrimRight(t) ==
    IF t # <<>> /\ t[Len(t)] \in WhiteSpace THEN TrimRight(SubSeq(t, 1, Len(t) - 1)) ELSE t

\* strings.TrimSpace
TrimSpace(t) == TrimRight(TrimLeft(t))

HasNewline(t) == \E i \in 1..Len(t) : t[i] = "\n"

\* reader.ReadString('\n') on the bytes at hand: through the first newline,
\* or all of them when there is none (the stream ended).
RECURSIVE ReadString(_)
ReadString(t) ==
    IF t = <<>> THEN <<>>
    ELSE IF Head(t) = "\n" THEN <<"\n">>
    ELSE <<Head(t)>> \o ReadString(Tail(t))

ExitSentinel == <<"e", "x", "i", "t">>

\* What arrives on stdin in one piece.
StdinChunks ==
    { <<"e", "x", "i", "t", "\n">>,
      <<" ", "e", "x", "i", "t", "\t", "\r", "\n">>,
      <<"e", "x", "i", "t", "s", "\n">>,
      <<"\n">>,
      <<"a", "\n">>,
      <<"a", "\n", "e", "x", "i", "t", "\n">>,
      <<"e", "x", "i", "t">>,
      <<>> }

Printed(kind) == [kind |-> kind, text |-> <<>>]

cliFrame == <<mode, proc, mainPc, wg, relayPc>>

\* Lines 116-118: the prompt, ReadString (its error is dropped), TrimSpace.
\* ReadString returns at a newline or at the end of the stream.
CliPrompt ==
    /\ proc = "running"
    /\ cliPc = "prompt"
    /\ \E chunk \in (IF eof \/ HasNewline(stdinBuf) THEN {<<>>} ELSE StdinChunks) :
          LET data == stdinBuf \o chunk
              line == ReadString(data)
          IN  /\ eof' = (eof \/ ~HasNewline(data))
              /\ stdinBuf' = SubSeq(data, Len(line) + 1, Len(data))
              /\ cliInput' = TrimSpace(line)
    /\ cliPc' = "read"
    /\ cliOut' = Printed("prompt")
    /\ UNCHANGED <<cliFrame, h, cliOpen>>

\* Lines 119-122.
CliExit ==
    /\ proc = "running"
    /\ cliPc = "read"
    /\ cliInput = ExitSentinel
    /\ cliPc' = "exited"
    /\ cliOut' = Printed("Exiting CLI uploader.")
    /\ cliInput' = <<>>
    /\ UNCHANGED <<cliFrame, h, cliOpen, stdinBuf, eof>>

\* A slip: break in place of continue when the open fails.
CliOpen_BreakOnError ==
    /\ proc = "running"
    /\ cliPc = "read"
    /\ cliInput # ExitSentinel
    /\ \E ok \in (IF cliInput = <<>> THEN {FALSE} ELSE BOOLEAN) :
          IF ok
          THEN cliPc' = "opened" /\ cliOpen' = cliOpen + 1 /\ UNCHANGED cliOut
          ELSE cliPc' = "exited" /\ cliOut' = Printed("Error opening file:")
                 /\ UNCHANGED cliOpen
    /\ cliInput' = <<>>
    /\ UNCHANGED <<cliFrame, h, stdinBuf, eof>>

\* A slip: the file is opened before the input is compared with the sentinel.
CliOpen_BeforeExitCheck ==
    /\ proc = "running"
    /\ cliPc = "read"
    /\ \E ok \in (IF cliInput = <<>> THEN {FALSE} ELSE BOOLEAN) :
          IF ok
          THEN cliPc' = "opened" /\ cliOpen' = cliOpen + 1 /\ UNCHANGED cliOut
          ELSE cliPc' = "prompt" /\ cliOut' = Printed("Error opening file:")
                 /\ UNCHANGED cliOpen
    /\ cliInput' = <<>>
    /\ UNCHANGED <<cliFrame, h, stdinBuf, eof>>

\* Lines 124-128: os.Open(input); the empty path never opens.
CliOpen ==
    /\ proc = "running"
    /\ cliPc = "read"
    /\ cliInput # ExitSentinel
    /\ \E ok \in (IF cliInput = <<>> THEN {FALSE} ELSE BOOLEAN) :
          IF ok
          THEN cliPc' = "opened" /\ cliOpen' = cliOpen + 1 /\ UNCHANGED cliOut
          ELSE cliPc' = "prompt" /\ cliOut' = Printed("Error opening file:")
                 /\ UNCHANGED cliOpen
    /\ cliInput' = <<>>
    /\ UNCHANGED <<cliFrame, h, stdinBuf, eof>>

CliBuildOutcomes ==
    {"ok", "Error creating form file:", "Error copying file:", "Error creating request:"}

\* A slip: no file.Close() on the path of a failed io.Copy.
CliBuild_LeakOnCopyError ==
    /\ proc = "running"
    /\ cliPc = "opened"
    /\ \E out \in CliBuildOutcomes :
          /\ cliOpen' = IF out = "Error copying file:" THEN cliOpen ELSE cliOpen - 1
          /\ IF out = "ok"
             THEN cliPc' = "ready" /\ UNCHANGED cliOut
             ELSE cliPc' = "prompt" /\ cliOut' = Printed(out)
    /\ UNCHANGED <<cliFrame, h, cliInput, stdinBuf, eof>>

\* Lines 130-154: the multipart body and the request.  file.Close() is on
\* each of the paths (lines 136, 143, 146).
CliBuild ==
    /\ proc = "running"
    /\ cliPc = "opened"
    /\ cliOpen' = cliOpen - 1
    /\ \E out \in CliBuildOutcomes :
          IF out = "ok"
          THEN cliPc' = "ready" /\ UNCHANGED cliOut
          ELSE cliPc' = "prompt" /\ cliOut' = Printed(out)
    /\ UNCHANGED <<cliFrame, h, cliInput, stdinBuf, eof>>

\* Lines 156-161, combined mode: client.Do reaches the relay of this process
\* when its listener accepts, and fails otherwise (or on the way).
CliSend ==
    /\ proc = "running"
    /\ mode = "combined"
    /\ cliPc = "ready"
    /\ \/ /\ relayPc = "listening"
          /\ h' = [h EXCEPT !["cli"] = [IdleCtx EXCEPT !.pc = "recv", !.req = "file"]]
          /\ cliPc' = "await"
          /\ UNCHANGED cliOut
       \/ /\ cliPc' = "prompt"
          /\ cliOut' = Printed("Upload failed:")
          /\ UNCHANGED h
    /\ UNCHANGED <<cliFrame, cliInput, cliOpen, stdinBuf, eof>>

\* Lines 163-170: the response is read and printed as it is.
CliReceive ==
    /\ proc = "running"
    /\ cliPc = "await"
    /\ h["cli"].pc = "answered"
    /\ \/ cliOut' = [kind |-> "Response from server:", text |-> h["cli"].resp[1].body]
       \/ cliOut' = Printed("Error reading response:")
    /\ cliPc' = "prompt"
    /\ h' = [h EXCEPT !["cli"] = IdleCtx]
    /\ UNCHANGED <<cliFrame, cliInput, cliOpen, stdinBuf, eof>>

\* What a relay of another process may send back (mode "cli").
ForeignBodies ==
    { MarshalMap([k \in {"error"} |-> <<"File missing">>]), <<"b">> }

\* Lines 156-170, mode "cli": the relay is whatever listens on localhost:3000.
CliExchange ==
    /\ proc = "running"
    /\ mode = "cli"
    /\ cliPc = "ready"
    /\ \/ cliOut' = Printed("Upload failed:")
       \/ cliOut' = Printed("Error reading response:")
       \/ \E b \in ForeignBodies : cliOut' = [kind |-> "Response from server:", text |-> b]
    /\ cliPc' = "prompt"
    /\ UNCHANGED <<cliFrame, h, cliInput, cliOpen, stdinBuf, eof>>

Next ==
    \/ LoadEnv
    \/ MainDispatch
    \/ MainSleep
    \/ MainAfterCli
    \/ MainWait
    \/ RelayListen
    \/ ListenReturns
    \/ ExtRequest
    \/ \E c \in Clients :
          \/ HandleFormFile(c)
          \/ HandleOpen(c)
          \/ HandleBuild(c)
          \/ HandleDo(c)
          \/ ProviderUnreachable(c)
          \/ ProviderAnswers(c)
    \/ ExtReceive
    \/ CliPrompt
    \/ CliExit
    \/ CliOpen
    \/ CliBuild
    \/ CliSend
    \/ CliReceive
    \/ CliExchange

Spec == Init /\ [][Next]_vars

(***************************************************************************)
(* The claims.                                                              *)
(***************************************************************************)
Answered(c) == h[c].pc = "answered"

\* A JSON document that is an object of the single member key: text, as
\* ParseDocument returns it for the bytes b.
SingleMember(b, key, text) ==
    [ok |-> TRUE,
     v |-> [t |-> "obj", m |-> << <<(<<key>>), [t |-> "str", s |-> text]>> >>],
     next |-> Len(b) + 1]

\* The provider has answered c's request with status 200 and a JSON body
\* whose IpfsHash member is a string.
PinnedAs200(c) ==
    /\ Answered(c)
    /\ h[c].reply # None
    /\ h[c].reply[1].status = 200
    /\ h[c].reply[1].ipfsHash # None

\* C1: a request with a readable file field that the provider answers with
\* status 200 and a JSON body whose IpfsHash is the string hash is answered
\* with status 200 and the JSON object {"ipfs_url": "https://ipfs.io/ipfs/" + hash}:
\* that is the map handed to c.JSON, and what the bytes sent decode to.
C1_SuccessURL ==
    \A c \in Clients :
        PinnedAs200(c) =>
            LET resp == h[c].resp[1]
                url == <<"https://ipfs.io/ipfs/">> \o h[c].reply[1].ipfsHash[1]
            IN  /\ h[c].req = "file"
                /\ resp.status = 200
                /\ resp.fields = [k \in {"ipfs_url"} |-> url]
                /\ ParseDocument(resp.body) = SingleMember(resp.body, "ipfs_url", url)

\* C1's case: a content identifier with a character JSON escapes has come
\* back from the provider and the request is answered.
C1_Witness ==
    \E c \in Clients :
        /\ PinnedAs200(c)
        /\ h[c].reply[1].ipfsHash[1] = <<"b", Quote>>
        /\ h[c].resp[1].status = 200

\* C2: a request with no file field, or one c.FormFile cannot read, is
\* answered with status 400 and the body {"error":"File missing"}.
C2_FileMissing ==
    \A c \in Clients :
        (Answered(c) /\ h[c].req # "file") =>
            LET resp == h[c].resp[1]
            IN  /\ resp.status = 400
                /\ resp.fields = [k \in {"error"} |-> <<"File missing">>]
                /\ resp.body = <<"{", Quote, "error", Quote, ":", Quote, "File missing", Quote, "}">>

\* C2's case: a request without the field, and one with an unreadable form,
\* have been answered.
C2_Witness ==
    /\ Answered("ext")
    /\ h["ext"].req \in {"absent", "malformed"}
    /\ h["ext"].resp[1].status = 400

\* The provider has answered c's request with a status other than 200.
Refused(c) ==
    /\ Answered(c)
    /\ h[c].reply # None
    /\ h[c].reply[1].status # 200

\* The characters of a provider body that the relay's JSON encoder rewrites.
Escaped == {Quote, Backslash, "<"}

\* C3 as stated: on a provider status other than 200 the relay answers 500,
\* the bytes of its body contain the provider's raw body verbatim, and the
\* provider was called once.
C3_RawBodyVerbatim ==
    \A c \in Clients :
        Refused(c) =>
            /\ h[c].resp[1].status = 500
            /\ Contains(h[c].resp[1].body, h[c].reply[1].body)
            /\ h[c].calls = 1

\* C3 as amended: on a provider status other than 200 the relay answers 500
\* with the JSON object {"error": "pinata error: " + raw body}: the raw body is
\* verbatim in the decoded error member, and verbatim in the bytes sent when
\* it has no character the encoder escapes; the provider was called once.
C3_RawBodyInErrorField ==
    \A c \in Clients :
        Refused(c) =>
            LET resp == h[c].resp[1]
                raw == h[c].reply[1].body
                text == <<"pinata error: ">> \o raw
            IN  /\ resp.status = 500
                /\ resp.fields = [k \in {"error"} |-> text]
                /\ ParseDocument(resp.body) = SingleMember(resp.body, "error", text)
                /\ (\A i \in 1..Len(raw) : raw[i] \notin Escaped) => Contains(resp.body, raw)
                /\ h[c].calls = 1

\* C3's case: the provider has refused with a body that holds a quote.
C3_Witness ==
    \E c \in Clients :
        /\ Refused(c)
        /\ h[c].reply[1].status = 500
        /\ h[c].reply[1].body = <<"b", Quote>>
        /\ h[c].resp[1].status = 500

\* C4: every response of the handler is one of two variants: the single
\* member ipfs_url, with status 200, or the single member error, with status
\* 400 or 500; none has both members.
C4_TwoVariants ==
    \A c \in Clients :
        Answered(c) =>
            /\ h[c].resp # None
            /\ LET resp == h[c].resp[1]
                   d == ParseDocument(resp.body)
               IN  /\ \/ DOMAIN resp.fields = {"ipfs_url"} /\ resp.status = 200
                      \/ DOMAIN resp.fields = {"error"} /\ resp.status \in {400, 500}
                   /\ d.ok /\ d.v.t = "obj" /\ Len(d.v.m) = 1
                   /\ <<d.v.m[1][1][1]>> = <<(CHOOSE k \in DOMAIN resp.fields : TRUE)>>

\* C4's case: both variants are out at once, the error one after a body of
\* the provider that is not JSON.
C4_Witness ==
    /\ Answered("cli")
    /\ DOMAIN h["cli"].resp[1].fields = {"ipfs_url"}
    /\ Answered("ext")
    /\ h["ext"].reply # None
    /\ h["ext"].reply[1].status = 200
    /\ DOMAIN h["ext"].resp[1].fields = {"error"}

\* C5 as stated: every request that has been answered caused one outbound
\* call to the provider.
C5_OneCallPerRequest ==
    \A c \in Clients : Answered(c) => h[c].calls = 1

\* What the calls of an answered request must be.
CallsAsAmended(c) ==
    /\ h[c].calls <= 1
    /\ Answered(c) =>
          /\ h[c].resp[1].status = 400 => h[c].calls = 0
          /\ h[c].req # "file" => h[c].calls = 0
          /\ h[c].resp[1].status = 200 => h[c].calls = 1
          /\ h[c].reply # None => h[c].calls = 1

\* C5 as amended: a request causes at most one outbound call: none when it
\* is refused for its file field, one when the provider's reply is what the
\* answer is made from; and once the response has gone out, the handler's
\* state is what it was before the request, the relay's other state unchanged.
C5_AtMostOneCallNoState ==
    /\ [](\A c \in Clients : CallsAsAmended(c))
    /\ [][\A c \in Clients :
             (Answered(c) /\ h'[c].pc # "answered") =>
                 /\ h'[c] = IdleCtx
                 /\ relayPc' = relayPc
                 /\ wg' = wg]_vars

\* C5's case: one request answered without a call while another has made its
\* one call.
C5_Witness ==
    /\ Answered("ext")
    /\ h["ext"].calls = 0
    /\ Answered("cli")
    /\ h["cli"].calls = 1

\* C6: in combined mode, whenever the uploader issues a request (it leaves
\* the point before client.Do), the relay's listener is accepting.
C6_ListenerBeforeRequest ==
    [][(mode = "combined" /\ cliPc = "ready" /\ cliPc' # "ready")
          => relayPc = "listening"]_vars

UploaderErrors ==
    {"Error opening file:", "Error creating form file:", "Error copying file:",
     "Error creating request:", "Upload failed:", "Error reading response:"}

\* C7: the uploader's loop ends only on the trimmed input exit; every step
\* that reports an error goes back to the prompt; the end of stdin, once
\* reached, does not end the loop.
C7_OnlyExitEndsLoop ==
    [][/\ (cliPc # "exited" /\ cliPc' = "exited") =>
              (cliPc = "read" /\ cliInput = <<"e", "x", "i", "t">>)
       /\ (cliOut' # cliOut /\ cliOut'.kind \in UploaderErrors) => cliPc' = "prompt"
       /\ (cliPc \in {"prompt", "read", "opened", "ready", "await"})
              => cliPc' \in {"prompt", "read", "opened", "ready", "await", "exited"}]_vars

\* C7's case: stdin has ended, the open of the empty path has failed, and
\* the uploader is prompting again.
C7_Witness ==
    /\ eof
    /\ cliPc = "prompt"
    /\ cliOut.kind = "Error opening file:"

\* C8: with the trimmed input exit, the uploader's next step ends the loop,
\* with no file opened and no request issued.
C8_ExitWithoutRequest ==
    [][(cliPc = "read" /\ cliInput = <<"e", "x", "i", "t">> /\ cliPc' # cliPc) =>
          /\ cliPc' = "exited"
          /\ cliOpen = 0 /\ cliOpen' = 0
          /\ h["cli"].pc = "idle" /\ h'["cli"] = h["cli"]]_vars

\* C8's case: the loop has ended.
C8_Witness ==
    /\ cliPc = "exited"
    /\ cliOut.kind = "Exiting CLI uploader."
    /\ cliOpen = 0

\* C9: the uploader holds at most one file open, and none when it prompts,
\* reads the input, waits for the relay or has ended; a handler holds at most
\* one, and none once it has returned its response.
C9_HandlesClosed ==
    /\ cliOpen <= 1
    /\ cliPc \in {"prompt", "read", "ready", "await", "exited"} => cliOpen = 0
    /\ \A c \in Clients :
          /\ h[c].fileOpen <= 1
          /\ h[c].pc \in {"answered", "idle"} => h[c].fileOpen = 0

\* C9's case: error paths past the open, in the uploader and in a handler.
C9_Witness ==
    /\ cliPc = "prompt"
    /\ cliOut.kind = "Error copying file:"
    /\ Answered("ext")
    /\ h["ext"].resp[1].fields = [k \in {"error"} |-> <<"multipart: ", "Copy", " failed">>]

\* C10: in combined mode main never returns and the relay goroutine never
\* returns: the process ends by log.Fatal alone; main waits on the wait-group
\* only after the uploader's loop has ended, the counter is then 1, and the
\* listener still takes requests.
C10_CombinedNeverReturns ==
    mode = "combined" =>
        /\ proc # "returned"
        /\ mainPc # "returned"
        /\ relayPc # "returned"
        /\ mainPc = "wait" => (wg = 1 /\ cliPc = "exited")
        /\ (mainPc = "wait" /\ proc = "running" /\ relayPc = "listening"
              /\ h["ext"].pc = "idle") => ENABLED ExtRequest

\* C10's case: the uploader has exited, main waits on the wait-group, and
\* the relay has a request in its handler.
C10_Witness ==
    /\ mode = "combined"
    /\ mainPc = "wait"
    /\ cliPc = "exited"
    /\ proc = "running"
    /\ h["ext"].pc = "recv"

====
